---- MODULE Spec2Model ----
(***************************************************************************)
(* InsightFlow / DeppeSearch: the research orchestrator of src/App.tsx     *)
(* (handleSearch, handleValidate, the reset buttons and the search form),  *)
(* the settings panel of components/ProviderSettings and the three         *)
(* reasoning backends (GeminiService, MiniMaxService, OllamaService) with  *)
(* the Tavily SearchService.                                               *)
(*                                                                         *)
(* Text is modelled structurally.  A user query is a sequence of           *)
(* characters.  A model response is a sequence of tokens: "p" is a piece   *)
(* of prose, "[" "]" "," are the JSON punctuation characters, and the      *)
(* remaining tokens are whole JSON values that contain no square bracket   *)
(* ("qa" is {"query":"a"}, "o" is {}, "n" is 1, "null" is null, "sd" is    *)
(* {"summary":"s","deepDive":"d"}, "s" is {"summary":"s"}), and "{k:" "}"  *)
(* open and close an object with the single key "k".                       *)
(***************************************************************************)
EXTENDS Naturals, Sequences, FiniteSets, TLC

VARIABLES
    query,              \* App: useState('') - the search box
    appState,           \* App: useState<AppState>
    steps,              \* App: the published step list
    result,             \* App: <<>> is null, <<r>> is the AnalysisResult r
    error,              \* App: NULL or the message
    providerConfig,     \* App: useState<ProviderConfig>, mirrored to localStorage
    isValidating,       \* App: useState(false)
    aiServiceInstance,  \* App: useState<IAIService>(gemini)
    geminiApiKey,       \* GeminiService.apiKey (and the client built from it)
    searchDefaultKey,   \* SearchService.apiKey, read from the environment once
    pc,                 \* handleSearch: the await it is suspended at
    runSvc,             \* handleSearch: aiServiceInstance of the render that ran it
    runQuery,           \* handleSearch: query of the render that ran it
    finalSteps,         \* handleSearch: local finalSteps
    allSources,         \* handleSearch: local allSources
    idx,                \* handleSearch: loop variable i (0-based)
    results,            \* executeResearchStep: the search results it holds
    pending,            \* the backend call handleSearch awaits
    planResp,           \* the outcome the run's planning call resolved with
    valPc,              \* handleValidate: "idle" or awaiting the "probe"
    valProvider,        \* handleValidate: providerConfig.provider of its render
    observed,           \* history: the run states the last run has entered
    calls,              \* history: the calls and requests the run has made
    processEnv,         \* process.env: LLM_PROVIDER, MINIMAX_API_KEY, MINIMAX_GROUP_ID
    factoryInstance,    \* AIServiceFactory.instance: NULL or the backend
    factoryProvider     \* AIServiceFactory.provider

appVars == <<query, appState, steps, result, error, observed>>
cfgVars == <<providerConfig, isValidating, aiServiceInstance, valPc, valProvider>>
factoryVars == <<processEnv, factoryInstance, factoryProvider>>
svcVars == <<geminiApiKey, searchDefaultKey, factoryVars>>
runVars == <<pc, runSvc, runQuery, finalSteps, allSources, idx, results, pending, planResp,
            calls>>
vars == <<query, appState, steps, result, error, providerConfig, isValidating,
          aiServiceInstance, geminiApiKey, searchDefaultKey, pc, runSvc, runQuery,
          finalSteps, allSources, idx, results, pending, planResp, valPc, valProvider,
          observed, calls, processEnv, factoryInstance, factoryProvider>>

----------------------------------------------------------------------------
(* Bounds and input domains *)

NULL == "<null>"
UNDEFINED == <<"<undefined>">>

AppStates == {"IDLE", "PLANNING", "RESEARCHING", "SYNTHESIZING", "COMPLETED", "ERROR"}
ProviderTypes == {"gemini", "minimax", "ollama"}

\* What the user can type into the search box: empty, blank, and a query
\* with leading white space (so that trimming changes it).
Queries == {<<>>, <<" ">>, <<" ", "q">>}

ApiKeys == {"", "k1"}
GroupIds == {"", "g1"}
BaseUrls == {"http://localhost:11434"}
SearchKeys == {"", "s1"}
EnvSearchKeys == {""}
\* process.env.TAVILY_API_KEY of a build that was given a key as well
BuildSearchKeys == {"", "e1"}

\* types.ts ProviderConfig; getDefaultConfig
getDefaultConfig ==
    [provider |-> "gemini", apiKey |-> "", groupId |-> "",
     model |-> "http://localhost:11434", searchApiKey |-> "", isValid |-> FALSE]

Configs ==
    [provider : ProviderTypes, apiKey : ApiKeys, groupId : GroupIds,
     model : BaseUrls, searchApiKey : SearchKeys,
     isValid : BOOLEAN]

\* localStorage['insightflow_provider_config']: the effect of App.tsx 50-52
\* rewrites it after every render in which providerConfig changed.
localStorage == providerConfig

----------------------------------------------------------------------------
(* Text helpers *)

RECURSIVE TrimLeft(_)
TrimLeft(s) == IF s # <<>> /\ Head(s) = " " THEN TrimLeft(Tail(s)) ELSE s

RECURSIVE TrimRight(_)
TrimRight(s) ==
    IF s # <<>> /\ s[Len(s)] = " " THEN TrimRight(SubSeq(s, 1, Len(s) - 1)) ELSE s

\* String.prototype.trim
Trim(s) == TrimRight(TrimLeft(s))

\* JS truthiness of a string
Truthy(s) == s # ""

----------------------------------------------------------------------------
(* JSON over tokens *)

AtomTokens == {"qa", "qb", "o", "n", "null", "sd", "s"}
ObjectTokens == {"qa", "qb", "o", "sd", "s"}

JNone == [kind |-> "none", tok |-> "", items |-> <<>>]
JAtom(t) ==
    [kind |-> IF t \in ObjectTokens THEN "object" ELSE IF t = "null" THEN "null" ELSE "number",
     tok |-> t, items |-> <<>>]
JArray(vs) == [kind |-> "array", tok |-> "", items |-> vs]

ParseFail == [ok |-> FALSE, val |-> JNone, next |-> 0]

\* One JSON value starting at token i of t: [ok, val, next].
RECURSIVE ParseValue(_, _)
RECURSIVE ParseElems(_, _, _)
ParseValue(t, i) ==
    IF i > Len(t) THEN ParseFail
    ELSE IF t[i] \in AtomTokens THEN [ok |-> TRUE, val |-> JAtom(t[i]), next |-> i + 1]
    ELSE IF t[i] = "["
         THEN IF i + 1 <= Len(t) /\ t[i + 1] = "]"
              THEN [ok |-> TRUE, val |-> JArray(<<>>), next |-> i + 2]
              ELSE ParseElems(t, i + 1, <<>>)
    ELSE IF t[i] = "{k:"
         THEN LET v == ParseValue(t, i + 1) IN
              IF v.ok /\ v.next <= Len(t) /\ t[v.next] = "}"
              THEN [ok |-> TRUE, val |-> JAtom("o"), next |-> v.next + 1]
              ELSE ParseFail
    ELSE ParseFail

\* The elements of an array after its "[" or after a ",": a value, then "," or "]".
ParseElems(t, i, acc) ==
    LET v == ParseValue(t, i) IN
    IF ~v.ok \/ v.next > Len(t) THEN ParseFail
    ELSE IF t[v.next] = "]"
         THEN [ok |-> TRUE, val |-> JArray(Append(acc, v.val)), next |-> v.next + 1]
    ELSE IF t[v.next] = ","
         THEN ParseElems(t, v.next + 1, Append(acc, v.val))
    ELSE ParseFail

\* JSON.parse: the whole text must be one value; [ok |-> FALSE] is a SyntaxError.
JSONParse(t) ==
    LET v == ParseValue(t, 1) IN
    IF v.ok /\ v.next = Len(t) + 1 THEN [ok |-> TRUE, val |-> v.val]
    ELSE [ok |-> FALSE, val |-> JNone]

Positions(t, S) == {i \in 1..Len(t) : t[i] \in S}
MinOf(S) == CHOOSE x \in S : \A y \in S : x <= y
MaxOf(S) == CHOOSE x \in S : \A y \in S : x >= y

\* response.match(/\[[\s\S]*\]/): greedy, from the first "[" to the last "]".
\* <<>> stands for "no match" (a match is never empty).
MatchBrackets(t) ==
    LET opens == Positions(t, {"["})
        closes == Positions(t, {"]"}) IN
    IF opens = {} \/ closes = {} \/ MaxOf(closes) < MinOf(opens) THEN <<>>
    ELSE SubSeq(t, MinOf(opens), MaxOf(closes))

\* response.match(/\{[\s\S]*\}/): from the first "{" to the last "}"; every
\* object token begins with "{" and ends with "}".
MatchBraces(t) ==
    LET opens == Positions(t, ObjectTokens \cup {"{k:"})
        closes == Positions(t, ObjectTokens \cup {"}"}) IN
    IF opens = {} \/ closes = {} \/ MaxOf(closes) < MinOf(opens) THEN <<>>
    ELSE SubSeq(t, MinOf(opens), MaxOf(closes))

----------------------------------------------------------------------------
(* Values exchanged with the backends *)

\* The outcome of one outbound call: "text" (a completion), "hits" (a Tavily
\* or grounding result list), "http" (non-2xx, msg is the body), "net" (the
\* request itself failed), "nochoices" (MiniMax: 2xx without choices) and
\* "config" (the call threw before any request: a missing credential).
Outcome(k, t, h, m) == [kind |-> k, text |-> t, hits |-> h, msg |-> m]
NoOutcome == Outcome("none", <<>>, <<>>, "")

\* The Error a call threw, with its message.
Thrown(message) == Outcome("thrown", <<>>, <<>>, message)

ApiErrorPrefix(svc) ==
    IF svc = "minimax" THEN "MiniMax API error: " ELSE "Ollama API error: "

\* Variant: the body of any response is taken for the completion.
callAPIIgnoringStatus(svc, o) ==
    CASE o.kind = "text" -> o
      [] o.kind = "http" -> Outcome("text", <<"p">>, <<>>, "")
      [] OTHER -> Thrown(o.msg)

\* MiniMaxService.callAPI / OllamaService.generate once the request has
\* settled with o: the completion, or the Error thrown; for a non-2xx response
\* the message ends with the body.
callAPI(svc, o) ==
    CASE o.kind = "text" -> o
      [] o.kind = "http" -> Thrown(ApiErrorPrefix(svc) \o o.msg)
      [] OTHER -> Thrown(o.msg)

NoCall == [kind |-> "none", outcome |-> NoOutcome]
Fetch == [kind |-> "fetch", outcome |-> NoOutcome]
Settled(o) == [kind |-> "settled", outcome |-> o]

\* Text a step result or a report body can hold.
Text(k, q, h, t) == [kind |-> k, query |-> q, hits |-> h, text |-> t]
UndefinedText == Text("undefined", <<>>, <<>>, <<>>)
Analysis(t) == Text("analysis", <<>>, <<>>, t)

\* types.ts GroundingChunk (web is always set by the three backends)
GroundingChunk(u, t) == [uri |-> u, title |-> t]

\* types.ts ResearchStep; id stands for `step-${index}`
ResearchStep(index, q) ==
    [id |-> index, query |-> q, status |-> "pending", hasResult |-> FALSE,
     result |-> UndefinedText, sources |-> <<>>]

SeqMap(Op(_, _), s) == [k \in 1..Len(s) |-> Op(s[k], k)]

----------------------------------------------------------------------------
(* generateResearchPlan *)

\* p.query of one element of the parsed plan
QueryOf(p) ==
    IF p.kind = "object" /\ p.tok = "qa" THEN <<"a">>
    ELSE IF p.kind = "object" /\ p.tok = "qb" THEN <<"b">>
    ELSE UNDEFINED

\* Variant: every step gets the id of the first.
PlanStepFirstId(p, k) == ResearchStep(0, QueryOf(p))

PlanStep(p, k) == ResearchStep(k - 1, QueryOf(p))

\* The single-step plan of the catch blocks.
FallbackPlan(userQuery) == <<ResearchStep(0, userQuery)>>

PlanResult(threw, msg, plan) == [threw |-> threw, msg |-> msg, plan |-> plan]

\* plan.map(...) on a parsed value: a TypeError (caught by the caller's catch)
\* when the value is no array or an element is null.
MapPlan(parsed, userQuery) ==
    IF ~parsed.ok THEN FallbackPlan(userQuery)
    ELSE IF parsed.val.kind # "array" THEN FallbackPlan(userQuery)
    ELSE IF \E k \in 1..Len(parsed.val.items) : parsed.val.items[k].kind = "null"
         THEN FallbackPlan(userQuery)
    ELSE SeqMap(PlanStep, parsed.val.items)

\* jsonMatch ? JSON.parse(jsonMatch[0]) : JSON.parse(response)
ExtractArray(response) ==
    LET jsonMatch == MatchBrackets(response) IN
    IF jsonMatch # <<>> THEN JSONParse(jsonMatch) ELSE JSONParse(response)

\* MiniMaxService.generateResearchPlan: the call and the parsing are both
\* inside the try, so every outcome ends in a plan.
MiniMaxGenerateResearchPlan(o, userQuery) ==
    LET response == callAPI("minimax", o) IN
    IF response.kind = "text"
    THEN PlanResult(FALSE, "", MapPlan(ExtractArray(response.text), userQuery))
    ELSE PlanResult(FALSE, "", FallbackPlan(userQuery))

\* OllamaService.generateResearchPlan
OllamaGenerateResearchPlan(o, userQuery) ==
    LET response == callAPI("ollama", o) IN
    IF response.kind = "text"
    THEN PlanResult(FALSE, "", MapPlan(ExtractArray(response.text), userQuery))
    ELSE PlanResult(FALSE, "", FallbackPlan(userQuery))

\* GeminiService.generateResearchPlan: the model call is awaited outside the
\* try; only JSON.parse(response.text || "[]") and the map are inside it.
GeminiGenerateResearchPlan(o, userQuery) ==
    IF o.kind = "text"
    THEN PlanResult(FALSE, "",
            MapPlan(JSONParse(IF o.text = <<>> THEN <<"[", "]">> ELSE o.text), userQuery))
    ELSE PlanResult(TRUE, o.msg, <<>>)

generateResearchPlan(svc, o, userQuery) ==
    CASE svc = "gemini" -> GeminiGenerateResearchPlan(o, userQuery)
      [] svc = "minimax" -> MiniMaxGenerateResearchPlan(o, userQuery)
      [] svc = "ollama" -> OllamaGenerateResearchPlan(o, userQuery)

----------------------------------------------------------------------------
(* SearchService *)

\* One hit: of the Tavily payload (a missing field is "<undefined>") or of
\* the result list made from it.
TavilySearchResult(u, t, c) == [url |-> u, title |-> t, content |-> c]

\* r.x || ""
OrEmpty(x) == IF x = "<undefined>" THEN "" ELSE x

ResultOfHit(r, k) == TavilySearchResult(OrEmpty(r.url), OrEmpty(r.title), OrEmpty(r.content))

\* searchService.ts 57-61: (data.results || []).map(...)
SearchResults(hits) == SeqMap(ResultOfHit, hits)

SourceOfHit(r, k) == GroundingChunk(r.url, r.title)

\* Variant: the citations are listed last hit first.
SearchSourcesLastFirst(rs) ==
    [k \in 1..Len(rs) |-> SourceOfHit(rs[Len(rs) + 1 - k], k)]

\* searchService.ts 63-68: the citations of the hits
SearchSources(rs) == SeqMap(SourceOfHit, rs)

\* Variant: only the key of the call site counts.
SearchKeyOfCallSite(apiKey) == apiKey

\* searchService.ts 25: const key = apiKey || this.apiKey
SearchKey(apiKey) == IF Truthy(apiKey) THEN apiKey ELSE searchDefaultKey

\* SearchService.summarizeResults / OllamaService.summarizeResults
summarizeResults(q, rs) == Text("context", q, rs, <<>>)

NoInformation == Text("No information found for this query.", <<>>, <<>>, <<>>)
GeminiNoInformation == Text("No information found.", <<>>, <<>>, <<>>)

----------------------------------------------------------------------------
(* executeResearchStep *)

StepResult(threw, msg, res, srcs) ==
    [threw |-> threw, msg |-> msg, result |-> res, sources |-> srcs]

\* The message of the Error a failed search raises.
SearchErrorMessage(o) ==
    CASE o.kind = "config" -> "TAVILY_API_KEY is not configured"
      [] o.kind = "http" -> "Tavily search failed: " \o o.msg
      [] OTHER -> "Failed to fetch"

\* Variant: a failed reasoning call returns the context without the sources.
AnalyzeContextDroppingSources(q, rs, llm) ==
    IF llm.kind = "text"
    THEN StepResult(FALSE, "", Analysis(llm.text), SearchSources(rs))
    ELSE StepResult(FALSE, "", summarizeResults(q, rs), <<>>)

\* minimaxService.ts 200-212 / ollamaService.ts 151-163: the reasoning call
\* over a non-empty context; any failure of it returns the context.
AnalyzeContext(q, rs, llm) ==
    IF llm.kind = "text"
    THEN StepResult(FALSE, "", Analysis(llm.text), SearchSources(rs))
    ELSE StepResult(FALSE, "", summarizeResults(q, rs), SearchSources(rs))

\* The raw grounding chunk of a Gemini candidate: web.uri/web.title, the flat
\* uri/title, or neither.
RawChunk(w, u, t) == [web |-> w, uri |-> u, title |-> t]

\* s.web?.uri || s.uri || "" and the same for the title
GeminiSource(s, k) == GroundingChunk(OrEmpty(s.uri), OrEmpty(s.title))

\* GeminiService.executeResearchStep: one call, awaited outside any try.
GeminiExecuteResearchStep(o) ==
    IF o.kind = "text"
    THEN StepResult(FALSE, "",
            IF o.text = <<>> THEN GeminiNoInformation ELSE Analysis(o.text),
            SeqMap(GeminiSource, o.hits))
    ELSE StepResult(TRUE, o.msg, UndefinedText, <<>>)

----------------------------------------------------------------------------
(* synthesizeAnalysis *)

DossierEntry(s, k) == <<s.query, s.result>>

\* steps.map(s => `Query: ${s.query}\nFindings: ${s.result}`).join(...)
researchData(stepList) == SeqMap(DossierEntry, stepList)

Body(k, d, t) == [kind |-> k, dossier |-> d, text |-> t]
DossierBody(stepList) == Body("dossier", researchData(stepList), <<>>)
ResponseBody(t) == Body("response", <<>>, t)
ModelBody == Body("d", <<>>, <<>>)
UndefinedBody == Body("undefined", <<>>, <<>>)

Synthesis(threw, msg, isNull, summary, deepDive) ==
    [threw |-> threw, msg |-> msg, isNull |-> isNull,
     summary |-> summary, deepDive |-> deepDive]

\* jsonMatch ? JSON.parse(jsonMatch[0]) : JSON.parse(response)
ExtractObject(response) ==
    LET jsonMatch == MatchBraces(response) IN
    IF jsonMatch # <<>> THEN JSONParse(jsonMatch) ELSE JSONParse(response)

\* result.summary and result.deepDive of a parsed value
SummaryOf(v) == IF v.kind = "object" /\ v.tok \in {"sd", "s"} THEN "s" ELSE "<undefined>"
DeepDiveOf(v) == IF v.kind = "object" /\ v.tok = "sd" THEN ModelBody ELSE UndefinedBody

SynthesisFallback(stepList) ==
    Synthesis(FALSE, "", FALSE, "Analysis complete.", DossierBody(stepList))

\* minimaxService.ts 244-258 / ollamaService.ts 188-202
SynthesizeFromText(response, parsed, stepList) ==
    IF ~parsed.ok \/ parsed.val.kind = "null" THEN SynthesisFallback(stepList)
    ELSE Synthesis(FALSE, "", FALSE,
            IF SummaryOf(parsed.val) = "<undefined>" THEN "Analysis complete."
            ELSE SummaryOf(parsed.val),
            IF DeepDiveOf(parsed.val) = UndefinedBody THEN ResponseBody(response)
            ELSE DeepDiveOf(parsed.val))

MiniMaxSynthesizeAnalysis(o, stepList) ==
    LET response == callAPI("minimax", o) IN
    IF response.kind = "text"
    THEN SynthesizeFromText(response.text, ExtractObject(response.text), stepList)
    ELSE SynthesisFallback(stepList)

OllamaSynthesizeAnalysis(o, stepList) ==
    LET response == callAPI("ollama", o) IN
    IF response.kind = "text"
    THEN SynthesizeFromText(response.text, ExtractObject(response.text), stepList)
    ELSE SynthesisFallback(stepList)

\* GeminiService.synthesizeAnalysis: the call is awaited outside the try; the
\* parsed value of response.text || "{}" is returned as it is.
GeminiSynthesizeAnalysis(o, stepList) ==
    IF o.kind # "text" THEN Synthesis(TRUE, o.msg, FALSE, "<undefined>", UndefinedBody)
    ELSE LET parsed == JSONParse(IF o.text = <<>> THEN <<"o">> ELSE o.text) IN
         IF ~parsed.ok
         THEN Synthesis(FALSE, "", FALSE, "Analysis complete.",
                        IF o.text = <<>>
                        THEN Body("Analysis could not be formatted correctly.", <<>>, <<>>)
                        ELSE ResponseBody(o.text))
         ELSE Synthesis(FALSE, "", parsed.val.kind = "null",
                        SummaryOf(parsed.val), DeepDiveOf(parsed.val))

synthesizeAnalysis(svc, o, stepList) ==
    CASE svc = "gemini" -> GeminiSynthesizeAnalysis(o, stepList)
      [] svc = "minimax" -> MiniMaxSynthesizeAnalysis(o, stepList)
      [] svc = "ollama" -> OllamaSynthesizeAnalysis(o, stepList)

----------------------------------------------------------------------------
(* Inputs: what the network can answer *)

NetError == Outcome("net", <<>>, <<>>, "Failed to fetch")
HttpError == Outcome("http", <<>>, <<>>, "body")
NoChoices == Outcome("nochoices", <<>>, <<>>, "No response from MiniMax API")

\* The longest well-formed plan a completion holds.
MaxSteps == 2

\* The longest well-formed plan of the runs of a validated session.
MaxPlanLen == 4

\* [{"query":"a"},{"query":"b"},...] with k elements
RECURSIVE PlanElems(_)
PlanElems(k) ==
    IF k = 1 THEN <<"qa">>
    ELSE PlanElems(k - 1) \o <<",", IF k % 2 = 0 THEN "qb" ELSE "qa">>
WellFormedPlan(k) == <<"[">> \o PlanElems(k) \o <<"]">>

\* Prose, the array of k objects, and the prose of tail.
PlanInProse(k, tail) == <<"p">> \o WellFormedPlan(k) \o tail

\* Prose after the array: plain, or with a bracketed reference in it.
ProseTails == { <<"p">>, <<"p", "[", "n", "]">> }

\* Planning completions: well-formed arrays, alone and inside prose, prose,
\* an empty array, prose around a bracketed number, an array of an object
\* without a query, an object wrapping an array, a truncated array, an empty
\* completion.
RunPlanTexts ==
    {WellFormedPlan(k) : k \in 1..MaxPlanLen} \cup
    {PlanInProse(MaxSteps, tail) : tail \in ProseTails} \cup
    { <<"p">>, <<"[", "]">>, <<"p", "[", "n", "]">>, <<"[", "o", "]">>,
      <<"{k:", "[", "qa", "]", "}">>, <<"[", "qa", ",">>, <<>> }
PlanTexts == { WellFormedPlan(MaxSteps), <<"p">> }

RunAnalysisTexts == { <<"p">>, <<>> }
AnalysisTexts == { <<"p">> }

RunSynthTexts == { <<"sd">>, <<"p">>, <<"s">>, <<"null">>, <<>> }
SynthTexts == { <<"sd">>, <<"null">> }

\* Two hits share the url u1 under different titles.
RunHitLists ==
    { <<>>, <<TavilySearchResult("u1", "t1", "c")>>,
      <<TavilySearchResult("u2", "<undefined>", "c"), TavilySearchResult("u1", "t2", "c")>> }
HitLists == { <<>>, <<TavilySearchResult("u1", "t1", "c")>> }

RunChunkLists ==
    { <<>>, <<RawChunk(TRUE, "u1", "t1")>>,
      <<RawChunk(FALSE, "<undefined>", "t3"), RawChunk(TRUE, "u1", "t2")>> }
ChunkLists == { <<RawChunk(TRUE, "u1", "t1")>> }

\* What a reasoning call of backend svc can end with, over completions T.
LLMOutcomes(svc, T) ==
    {Outcome("text", t, <<>>, "") : t \in T} \cup {NetError}
    \cup (IF svc = "gemini" THEN {} ELSE {HttpError})
    \cup (IF svc = "minimax" THEN {NoChoices} ELSE {})

GeminiStepOutcomes(T, C) ==
    {Outcome("text", t, c, "") : t \in T, c \in C} \cup {NetError}

TavilyOutcomes(H) == {Outcome("hits", <<>>, h, "") : h \in H} \cup {NetError, HttpError}

----------------------------------------------------------------------------
(* Starting a call *)

GeminiKeyError ==
    Outcome("config", <<>>, <<>>, "Please configure your Gemini API key in settings")
MiniMaxKeyError ==
    Outcome("config", <<>>, <<>>,
            "MiniMax API key or Group ID not configured. Please configure in settings.")
TavilyKeyError == Outcome("config", <<>>, <<>>, "TAVILY_API_KEY is not configured")

\* GeminiService.getAI: the key is read from storage only while none is held.
GeminiKeyAfter == IF geminiApiKey = "" THEN localStorage.apiKey ELSE geminiApiKey

\* The call a backend's reasoning request becomes: a request on the wire, or
\* an error raised before any request.
ReasoningCall(svc) ==
    CASE svc = "gemini" ->
            IF Truthy(GeminiKeyAfter) THEN Fetch ELSE Settled(GeminiKeyError)
      [] svc = "minimax" ->
            IF ~Truthy(localStorage.apiKey) \/ ~Truthy(localStorage.groupId)
            THEN Settled(MiniMaxKeyError) ELSE Fetch
      [] svc = "ollama" -> Fetch

\* SearchService.search up to its fetch
SearchCall ==
    IF Truthy(SearchKey(localStorage.searchApiKey)) THEN Fetch ELSE Settled(TavilyKeyError)

\* The awaited call settles with o: an error raised before the request is the
\* only outcome of a call that made none, and no outcome of one that did.
Resolves(o) ==
    IF pending.kind = "settled" THEN o = pending.outcome ELSE o.kind # "config"

\* No synchronous continuation of handleSearch is due: UI events and network
\* completions are tasks, which run only between such continuations.
TaskMayRun == pc # "loop" /\ pending.kind # "settled"

----------------------------------------------------------------------------
(* App.tsx: the search form and handleSearch *)

InFlight == {"PLANNING", "RESEARCHING", "SYNTHESIZING"}

\* App.tsx 339: the disabled attribute of the query input
InputDisabled == appState \in InFlight

\* Variant: the submit button is disabled by the configuration alone.
SubmitDisabledIgnoringRun == ~providerConfig.isValid

\* App.tsx 345: the disabled attribute of the submit button; a form whose
\* submit button is disabled cannot be submitted.
SubmitDisabled == ~providerConfig.isValid \/ appState \in InFlight

\* setAppState(s), recorded in the history of the run
setAppState(s) ==
    /\ appState' = s
    /\ observed' = Append(observed, s)

\* One entry of the history of calls: a call of a backend method with its
\* argument, or a request that went out on the wire ("fetch:...").
Call(op, n, arg) == [op |-> op, n |-> n, arg |-> arg]

\* The method call c is made and, unless it threw before its request, the
\* request: both are recorded.
Issued(c, request) ==
    calls' = calls \o c \o (IF pending' = Fetch THEN <<Call(request, idx, <<>>)>> ELSE <<>>)

\* handleSearch's locals once the run is over
RunOver ==
    /\ pc' = "idle"
    /\ runSvc' = "gemini"
    /\ runQuery' = <<>>
    /\ pending' = NoCall
    /\ finalSteps' = <<>>
    /\ allSources' = <<>>
    /\ results' = <<>>
    /\ idx' = 0
    /\ planResp' = NoOutcome
    /\ calls' = <<>>

\* Variant: the catch marks the step that was under way as failed.
CatchMarkingFailed(message) ==
    /\ error' = IF message = "" THEN "An unexpected error occurred during research."
                ELSE message
    /\ setAppState("ERROR")
    /\ RunOver
    /\ steps' = [j \in 1..Len(steps) |->
                    IF steps[j].status = "searching"
                    THEN [steps[j] EXCEPT !.status = "failed"] ELSE steps[j]]
    /\ UNCHANGED <<query, result>>

\* App.tsx 278-282: the catch block
Catch(message) ==
    /\ error' = IF message = "" THEN "An unexpected error occurred during research."
                ELSE message
    /\ setAppState("ERROR")
    /\ RunOver
    /\ UNCHANGED <<query, steps, result>>

\* App.tsx 338: onChange of the query input
SetQuery(v) ==
    /\ TaskMayRun
    /\ ~InputDisabled
    /\ query' = v
    /\ UNCHANGED <<appState, observed, steps, result, error, cfgVars, svcVars, runVars>>

\* Variant: the guard tests the query without trimming it.
SearchRefusedUntrimmed == query = <<>> \/ ~providerConfig.isValid

\* App.tsx 226: the guard of handleSearch
SearchRefused == Trim(query) = <<>> \/ ~providerConfig.isValid

\* Variant: handleSearch starts a run without clearing the result.
handleSearchKeepingResult ==
    /\ TaskMayRun
    /\ ~SubmitDisabled
    /\ IF SearchRefused
       THEN UNCHANGED vars
       ELSE /\ appState' = "PLANNING"
            /\ observed' = <<"PLANNING">>
            /\ error' = NULL
            /\ runSvc' = aiServiceInstance
            /\ runQuery' = query
            /\ pc' = "plan"
            /\ pending' = ReasoningCall(aiServiceInstance)
            /\ geminiApiKey' = IF aiServiceInstance = "gemini" THEN GeminiKeyAfter
                                ELSE geminiApiKey
            /\ Issued(<<Call("generateResearchPlan", 0, query)>>, "fetch:plan")
            /\ UNCHANGED <<query, steps, result, cfgVars, searchDefaultKey, factoryVars, finalSteps,
                           allSources, idx, results, planResp>>

\* App.tsx 224-234: the form is submitted; handleSearch runs up to its first
\* await, the generateResearchPlan call.
handleSearch ==
    /\ TaskMayRun
    /\ ~SubmitDisabled
    /\ IF SearchRefused
       THEN UNCHANGED vars
       ELSE /\ appState' = "PLANNING"
            /\ observed' = <<"PLANNING">>
            /\ error' = NULL
            /\ result' = <<>>
            /\ runSvc' = aiServiceInstance
            /\ runQuery' = query
            /\ pc' = "plan"
            /\ pending' = ReasoningCall(aiServiceInstance)
            /\ geminiApiKey' = IF aiServiceInstance = "gemini" THEN GeminiKeyAfter
                                ELSE geminiApiKey
            /\ Issued(<<Call("generateResearchPlan", 0, query)>>, "fetch:plan")
            /\ UNCHANGED <<query, steps, cfgVars, searchDefaultKey, factoryVars, finalSteps,
                           allSources, idx, results, planResp>>

\* App.tsx 234-240: generateResearchPlan settles with outcome o.
PlanReturns(o) ==
    /\ pc = "plan"
    /\ Resolves(o)
    /\ LET r == generateResearchPlan(runSvc, o, runQuery) IN
       IF r.threw
       THEN Catch(r.msg)
       ELSE /\ steps' = r.plan
            /\ setAppState("RESEARCHING")
            /\ finalSteps' = r.plan
            /\ allSources' = <<>>
            /\ idx' = 0
            /\ pc' = "loop"
            /\ pending' = NoCall
            /\ planResp' = o
            /\ UNCHANGED <<query, result, error, runSvc, runQuery, results, calls>>
    /\ UNCHANGED <<cfgVars, svcVars>>

\* Variant: a step is marked searching without the list being published.
StartStepUnpublished ==
    /\ pc = "loop"
    /\ idx < Len(finalSteps)
    /\ finalSteps' = [finalSteps EXCEPT ![idx + 1].status = "searching"]
    /\ steps' = steps
    /\ IF runSvc = "gemini"
       THEN /\ pc' = "exec"
            /\ pending' = ReasoningCall(runSvc)
            /\ geminiApiKey' = GeminiKeyAfter
       ELSE /\ pc' = "search"
            /\ pending' = SearchCall
            /\ geminiApiKey' = geminiApiKey
    /\ Issued(<<Call("executeResearchStep", idx, finalSteps[idx + 1].query)>>,
              IF runSvc = "gemini" THEN "fetch:reason" ELSE "fetch:search")
    /\ UNCHANGED <<query, appState, observed, result, error, cfgVars, searchDefaultKey,
                   factoryVars, runSvc, runQuery, allSources, idx, results, planResp>>

\* Variant: every remaining step is marked searching when one is started.
StartStepAll ==
    /\ pc = "loop"
    /\ idx < Len(finalSteps)
    /\ finalSteps' = [j \in 1..Len(finalSteps) |->
                         IF j > idx THEN [finalSteps[j] EXCEPT !.status = "searching"]
                         ELSE finalSteps[j]]
    /\ steps' = finalSteps'
    /\ IF runSvc = "gemini"
       THEN /\ pc' = "exec"
            /\ pending' = ReasoningCall(runSvc)
            /\ geminiApiKey' = GeminiKeyAfter
       ELSE /\ pc' = "search"
            /\ pending' = SearchCall
            /\ geminiApiKey' = geminiApiKey
    /\ Issued(<<Call("executeResearchStep", idx, finalSteps[idx + 1].query)>>,
              IF runSvc = "gemini" THEN "fetch:reason" ELSE "fetch:search")
    /\ UNCHANGED <<query, appState, observed, result, error, cfgVars, searchDefaultKey, factoryVars, runSvc,
                   runQuery, allSources, idx, results, planResp>>

\* App.tsx 242-249: the loop test; a step is marked searching, published, and
\* executeResearchStep is called (it runs up to its first await).
StartStep ==
    /\ pc = "loop"
    /\ idx < Len(finalSteps)
    /\ finalSteps' = [finalSteps EXCEPT ![idx + 1].status = "searching"]
    /\ steps' = finalSteps'
    /\ IF runSvc = "gemini"
       THEN /\ pc' = "exec"
            /\ pending' = ReasoningCall(runSvc)
            /\ geminiApiKey' = GeminiKeyAfter
       ELSE /\ pc' = "search"
            /\ pending' = SearchCall
            /\ geminiApiKey' = geminiApiKey
    /\ Issued(<<Call("executeResearchStep", idx, finalSteps[idx + 1].query)>>,
              IF runSvc = "gemini" THEN "fetch:reason" ELSE "fetch:search")
    /\ UNCHANGED <<query, appState, observed, result, error, cfgVars, searchDefaultKey, factoryVars, runSvc,
                   runQuery, allSources, idx, results, planResp>>

\* App.tsx 251-260: the step's result is committed and published.
CommitStep(researchData_) ==
    /\ finalSteps' = [finalSteps EXCEPT ![idx + 1] =
                         [@ EXCEPT !.status = "completed", !.hasResult = TRUE,
                                   !.result = researchData_.result,
                                   !.sources = researchData_.sources]]
    /\ allSources' = allSources \o researchData_.sources
    /\ steps' = finalSteps'
    /\ idx' = idx + 1
    /\ pc' = "loop"
    /\ pending' = NoCall
    /\ results' = <<>>
    /\ UNCHANGED <<query, appState, observed, result, error, runSvc, runQuery, planResp,
                   calls>>

\* GeminiService.executeResearchStep settles.
GeminiStepReturns(o) ==
    /\ pc = "exec"
    /\ Resolves(o)
    /\ LET r == GeminiExecuteResearchStep(o) IN
       IF r.threw THEN Catch(r.msg) ELSE CommitStep(r)
    /\ UNCHANGED <<cfgVars, svcVars>>

\* Variant: a failed search is issued again.
SearchReturnsRetrying(o) ==
    /\ pc = "search"
    /\ Resolves(o)
    /\ IF o.kind # "hits"
       THEN /\ pending' = SearchCall
            /\ Issued(<<>>, "fetch:search")
            /\ UNCHANGED <<appVars, pc, runSvc, runQuery, finalSteps, allSources, idx,
                           results, planResp>>
       ELSE IF Len(SearchResults(o.hits)) = 0
       THEN CommitStep(StepResult(FALSE, "", NoInformation, <<>>))
       ELSE /\ results' = SearchResults(o.hits)
            /\ pc' = "llm"
            /\ pending' = ReasoningCall(runSvc)
            /\ Issued(<<>>, "fetch:reason")
            /\ UNCHANGED <<appVars, runSvc, runQuery, finalSteps, allSources, idx,
                           planResp>>
    /\ UNCHANGED <<cfgVars, svcVars>>

\* Variant: the reasoning call is made whatever the number of hits.
SearchReturnsAlwaysAnalyzing(o) ==
    /\ pc = "search"
    /\ Resolves(o)
    /\ IF o.kind # "hits"
       THEN Catch(SearchErrorMessage(o))
       ELSE /\ results' = SearchResults(o.hits)
            /\ pc' = "llm"
            /\ pending' = ReasoningCall(runSvc)
            /\ Issued(<<>>, "fetch:reason")
            /\ UNCHANGED <<appVars, runSvc, runQuery, finalSteps, allSources, idx,
                           planResp>>
    /\ UNCHANGED <<cfgVars, svcVars>>

\* Variant: a failed search is treated as a search without hits.
SearchReturnsRecovering(o) ==
    /\ pc = "search"
    /\ Resolves(o)
    /\ IF o.kind # "hits" \/ Len(SearchResults(o.hits)) = 0
       THEN CommitStep(StepResult(FALSE, "", NoInformation, <<>>))
       ELSE /\ results' = SearchResults(o.hits)
            /\ pc' = "llm"
            /\ pending' = ReasoningCall(runSvc)
            /\ Issued(<<>>, "fetch:reason")
            /\ UNCHANGED <<appVars, runSvc, runQuery, finalSteps, allSources, idx,
                           planResp>>
    /\ UNCHANGED <<cfgVars, svcVars>>

\* minimaxService.ts 167-178 / ollamaService.ts 126-137: the search settles; a
\* failed search propagates, no hit returns the sentinel, otherwise the
\* reasoning call is made.
SearchReturns(o) ==
    /\ pc = "search"
    /\ Resolves(o)
    /\ IF o.kind # "hits"
       THEN Catch(SearchErrorMessage(o))
       ELSE IF Len(SearchResults(o.hits)) = 0
       THEN CommitStep(StepResult(FALSE, "", NoInformation, <<>>))
       ELSE /\ results' = SearchResults(o.hits)
            /\ pc' = "llm"
            /\ pending' = ReasoningCall(runSvc)
            /\ Issued(<<>>, "fetch:reason")
            /\ UNCHANGED <<appVars, runSvc, runQuery, finalSteps, allSources, idx,
                           planResp>>
    /\ UNCHANGED <<cfgVars, svcVars>>

\* minimaxService.ts 200-212 / ollamaService.ts 151-163: the reasoning call
\* over the search context settles.
AnalysisReturns(o) ==
    /\ pc = "llm"
    /\ Resolves(o)
    /\ CommitStep(AnalyzeContext(finalSteps[idx + 1].query, results, callAPI(runSvc, o)))
    /\ UNCHANGED <<cfgVars, svcVars>>

\* Variant: synthesizeAnalysis is called only for a plan that has steps.
StartSynthesisOfSteps ==
    /\ pc = "loop"
    /\ idx >= Len(finalSteps)
    /\ Len(finalSteps) > 0
    /\ setAppState("SYNTHESIZING")
    /\ pc' = "synth"
    /\ pending' = ReasoningCall(runSvc)
    /\ geminiApiKey' = IF runSvc = "gemini" THEN GeminiKeyAfter ELSE geminiApiKey
    /\ Issued(<<Call("synthesizeAnalysis", 0, runQuery)>>, "fetch:synth")
    /\ UNCHANGED <<query, steps, result, error, cfgVars, searchDefaultKey, factoryVars, runSvc,
                   runQuery, finalSteps, allSources, idx, results, planResp>>

\* Variant: the loop is left after its first step.
StartSynthesisEarly ==
    /\ pc = "loop"
    /\ idx >= Len(finalSteps) \/ idx >= 1
    /\ setAppState("SYNTHESIZING")
    /\ pc' = "synth"
    /\ pending' = ReasoningCall(runSvc)
    /\ geminiApiKey' = IF runSvc = "gemini" THEN GeminiKeyAfter ELSE geminiApiKey
    /\ Issued(<<Call("synthesizeAnalysis", 0, runQuery)>>, "fetch:synth")
    /\ UNCHANGED <<query, steps, result, error, cfgVars, searchDefaultKey, factoryVars, runSvc,
                   runQuery, finalSteps, allSources, idx, results, planResp>>

\* Variant: synthesizeAnalysis is called without setting SYNTHESIZING.
StartSynthesisUnannounced ==
    /\ pc = "loop"
    /\ idx >= Len(finalSteps)
    /\ pc' = "synth"
    /\ pending' = ReasoningCall(runSvc)
    /\ geminiApiKey' = IF runSvc = "gemini" THEN GeminiKeyAfter ELSE geminiApiKey
    /\ Issued(<<Call("synthesizeAnalysis", 0, runQuery)>>, "fetch:synth")
    /\ UNCHANGED <<query, appState, observed, steps, result, error, cfgVars,
                   searchDefaultKey, factoryVars, runSvc, runQuery, finalSteps, allSources, idx,
                   results, planResp>>

\* App.tsx 264-265: every step is done; synthesizeAnalysis is called.
StartSynthesis ==
    /\ pc = "loop"
    /\ idx >= Len(finalSteps)
    /\ setAppState("SYNTHESIZING")
    /\ pc' = "synth"
    /\ pending' = ReasoningCall(runSvc)
    /\ geminiApiKey' = IF runSvc = "gemini" THEN GeminiKeyAfter ELSE geminiApiKey
    /\ Issued(<<Call("synthesizeAnalysis", 0, runQuery)>>, "fetch:synth")
    /\ UNCHANGED <<query, steps, result, error, cfgVars, searchDefaultKey, factoryVars, runSvc,
                   runQuery, finalSteps, allSources, idx, results, planResp>>

\* new Map(allSources.map(s => [s.web?.uri, s])): a key keeps the place of its
\* first entry and the value of its last.
RECURSIVE MapOf(_, _)
MapOf(entries, acc) ==
    IF entries = <<>> THEN acc
    ELSE LET s == Head(entries)
             at == {j \in 1..Len(acc) : acc[j].uri = s.uri} IN
         IF at = {} THEN MapOf(Tail(entries), Append(acc, s))
         ELSE MapOf(Tail(entries), [acc EXCEPT ![CHOOSE j \in at : TRUE] = s])

\* Variant: the first entry of a uri is kept.
RECURSIVE FirstOf(_, _)
FirstOf(entries, acc) ==
    IF entries = <<>> THEN acc
    ELSE IF \E j \in 1..Len(acc) : acc[j].uri = Head(entries).uri
         THEN FirstOf(Tail(entries), acc)
         ELSE FirstOf(Tail(entries), Append(acc, Head(entries)))
uniqueSourcesFirstWins(srcs) == FirstOf(srcs, <<>>)

\* Variant: a uri met again moves to the end of the list.
RECURSIVE LastPlaceOf(_, _)
LastPlaceOf(entries, acc) ==
    IF entries = <<>> THEN acc
    ELSE LET s == Head(entries)
             others == SelectSeq(acc, LAMBDA e : e.uri # s.uri) IN
         LastPlaceOf(Tail(entries), Append(others, s))
uniqueSourcesLastPlace(srcs) == LastPlaceOf(srcs, <<>>)

\* App.tsx 268: Array.from(new Map(...).values())
uniqueSources(srcs) == MapOf(srcs, <<>>)

AnalysisResult(synthesis, stepList, srcs) ==
    [summary |-> synthesis.summary, deepDive |-> synthesis.deepDive,
     steps |-> stepList, allSources |-> srcs]

\* App.tsx 265-276: synthesizeAnalysis settles.
SynthesisReturns(o) ==
    /\ pc = "synth"
    /\ Resolves(o)
    /\ LET synthesis == synthesizeAnalysis(runSvc, o, finalSteps) IN
       IF synthesis.threw THEN Catch(synthesis.msg)
       ELSE IF synthesis.isNull
       THEN Catch("Cannot read properties of null (reading 'summary')")
       ELSE /\ result' = <<AnalysisResult(synthesis, finalSteps, uniqueSources(allSources))>>
            /\ setAppState("COMPLETED")
            /\ RunOver
            /\ UNCHANGED <<query, steps, error>>
    /\ UNCHANGED <<cfgVars, svcVars>>

\* Variant: the reset button is rendered whatever the error is.
ResetAlwaysRendered ==
    /\ TaskMayRun
    /\ appState # "IDLE"
    /\ appState' = "IDLE"
    /\ observed' = <<>>
    /\ UNCHANGED <<query, steps, result, error, cfgVars, svcVars, runVars>>

\* App.tsx 403-409: "Reset and Try Again", rendered while error is set and
\* the dashboard is shown.
ResetAndTryAgain ==
    /\ TaskMayRun
    /\ appState # "IDLE"
    /\ error # NULL
    /\ appState' = "IDLE"
    /\ observed' = <<>>
    /\ UNCHANGED <<query, steps, result, error, cfgVars, svcVars, runVars>>

\* Variant: "New Search" goes back to idle with the result left in place.
NewSearchKeepingResult ==
    /\ TaskMayRun
    /\ appState # "IDLE"
    /\ result # <<>>
    /\ appState' = "IDLE"
    /\ observed' = <<>>
    /\ query' = <<>>
    /\ UNCHANGED <<steps, result, error, cfgVars, svcVars, runVars>>

\* Variant: "New Search" is rendered whenever the dashboard is shown.
NewSearchAlwaysRendered ==
    /\ TaskMayRun
    /\ appState # "IDLE"
    /\ appState' = "IDLE"
    /\ observed' = <<>>
    /\ query' = <<>>
    /\ result' = <<>>
    /\ UNCHANGED <<steps, error, cfgVars, svcVars, runVars>>

\* App.tsx 415, 463-464: "New Search", rendered while result is set and the
\* dashboard is shown.
NewSearch ==
    /\ TaskMayRun
    /\ appState # "IDLE"
    /\ result # <<>>
    /\ appState' = "IDLE"
    /\ observed' = <<>>
    /\ query' = <<>>
    /\ result' = <<>>
    /\ UNCHANGED <<steps, error, cfgVars, svcVars, runVars>>

----------------------------------------------------------------------------
(* ProviderSettings and handleValidate *)

\* onConfigChange(c): setProviderConfig(c)
onConfigChange(c) ==
    /\ TaskMayRun
    /\ providerConfig' = c
    /\ UNCHANGED <<appVars, isValidating, aiServiceInstance, valPc, valProvider,
                   svcVars, runVars>>

\* ProviderSettings 40-46
handleProviderChange(provider) ==
    onConfigChange([providerConfig EXCEPT !.provider = provider, !.isValid = FALSE])

\* Variant: the key input leaves isValid as it is.
ApiKeyChangeKeepingValid(v) ==
    /\ providerConfig.provider \in {"gemini", "minimax"}
    /\ onConfigChange([providerConfig EXCEPT !.apiKey = v])

\* ProviderSettings 103-109, 120-126: the key input of gemini and minimax
ApiKeyChange(v) ==
    /\ providerConfig.provider \in {"gemini", "minimax"}
    /\ onConfigChange([providerConfig EXCEPT !.apiKey = v, !.isValid = FALSE])

\* ProviderSettings 132-138: the group id input of minimax
GroupIdChange(v) ==
    /\ providerConfig.provider = "minimax"
    /\ onConfigChange([providerConfig EXCEPT !.groupId = v, !.isValid = FALSE])

\* ProviderSettings 144-150, 174-180: the search key input of minimax and ollama
SearchApiKeyChange(v) ==
    /\ providerConfig.provider \in {"minimax", "ollama"}
    /\ onConfigChange([providerConfig EXCEPT !.searchApiKey = v, !.isValid = FALSE])

\* ProviderSettings 162-168: the base url input of ollama
ModelChange(v) ==
    /\ providerConfig.provider = "ollama"
    /\ onConfigChange([providerConfig EXCEPT !.model = v, !.isValid = FALSE])

\* ProviderSettings 189: the disabled attribute of the Validate button
ValidateDisabled ==
    isValidating \/ (~Truthy(providerConfig.apiKey) /\ ~Truthy(providerConfig.searchApiKey))

\* Variant: gemini is probed as the other providers are.
NeedsProbeForGemini ==
    \/ providerConfig.provider \in {"ollama", "gemini"}
    \/ /\ providerConfig.provider = "minimax"
       /\ Truthy(providerConfig.apiKey)
       /\ Truthy(providerConfig.groupId)

\* App.tsx 70-103: does handleValidate reach a probe call?
NeedsProbe ==
    \/ providerConfig.provider = "ollama"
    \/ /\ providerConfig.provider = "minimax"
       /\ Truthy(providerConfig.apiKey)
       /\ Truthy(providerConfig.groupId)

\* App.tsx 132-155: the end of handleValidate for the provider it was run for
FinishValidate(isValid, provider) ==
    /\ isValidating' = FALSE
    /\ valPc' = "idle"
    /\ valProvider' = "gemini"
    /\ IF isValid
       THEN /\ providerConfig' = [providerConfig EXCEPT !.isValid = TRUE]
            /\ aiServiceInstance' = provider
       ELSE UNCHANGED <<providerConfig, aiServiceInstance>>

\* App.tsx 65-158 without a probe: gemini, and minimax lacking a key or group
\* id, finish in the same task.
handleValidate ==
    /\ TaskMayRun
    /\ ~ValidateDisabled
    /\ IF NeedsProbe
       THEN /\ isValidating' = TRUE
            /\ valPc' = "probe"
            /\ valProvider' = providerConfig.provider
            /\ UNCHANGED <<providerConfig, aiServiceInstance>>
       ELSE FinishValidate(providerConfig.provider = "gemini"
                               /\ Truthy(providerConfig.apiKey),
                           providerConfig.provider)
    /\ UNCHANGED <<appVars, svcVars, runVars>>

\* The completions a probe can get.
ProbeTexts == { <<"[", "qa", "]">>, <<"p">> }

ProbeQuery == <<"t", "e", "s", "t">>

\* App.tsx 91-96, 115-120: the probe generateResearchPlan("test") settles; the
\* validation holds unless the probe threw.
ValidateReturns(o) ==
    /\ TaskMayRun
    /\ valPc = "probe"
    /\ FinishValidate(~generateResearchPlan(valProvider, o, ProbeQuery).threw, valProvider)
    /\ UNCHANGED <<appVars, svcVars, runVars>>

----------------------------------------------------------------------------
(* The application *)

-----------------------------------------------------------------------------
(* AIServiceFactory *)

\* process.env as the factory reads it; an unset variable is "<undefined>".
ProviderNames == {"<undefined>", "gemini", "minimax", "ollama", "MiniMax", "OLLAMA", "openai"}
EnvApiKeys == {"<undefined>", "", "k1"}
EnvGroupIds == {"<undefined>", "", "g1"}
ProcessEnvs ==
    [LLM_PROVIDER : ProviderNames, MINIMAX_API_KEY : EnvApiKeys,
     MINIMAX_GROUP_ID : EnvGroupIds]
NoProcessEnv ==
    [LLM_PROVIDER |-> "<undefined>", MINIMAX_API_KEY |-> "<undefined>",
     MINIMAX_GROUP_ID |-> "<undefined>"]

\* !process.env.X
EnvUnset(x) == x \in {"<undefined>", ""}

\* String.prototype.toLowerCase over the names above; ?. keeps undefined
toLowerCase(name) ==
    CASE name = "MiniMax" -> "minimax"
      [] name = "OLLAMA" -> "ollama"
      [] OTHER -> name

\* AIServiceFactory.getProviderType
getProviderType ==
    LET provider == toLowerCase(processEnv.LLM_PROVIDER) IN
    IF provider = "minimax" \/ provider = "ollama" THEN provider ELSE "gemini"

\* Variant: the fallback to gemini leaves the requested provider recorded.
getServiceRecordingRequest ==
    /\ IF factoryInstance # NULL
       THEN UNCHANGED <<factoryInstance, factoryProvider>>
       ELSE LET providerType == getProviderType IN
            /\ factoryProvider' = providerType
            /\ factoryInstance' =
                  CASE providerType = "minimax" ->
                         IF EnvUnset(processEnv.MINIMAX_API_KEY)
                            \/ EnvUnset(processEnv.MINIMAX_GROUP_ID)
                         THEN "gemini" ELSE "minimax"
                    [] providerType = "ollama" -> "ollama"
                    [] OTHER -> "gemini"
    /\ UNCHANGED <<processEnv, appVars, cfgVars, geminiApiKey, searchDefaultKey, runVars>>

\* AIServiceFactory.getService: the instance held, or the one resolved from
\* the environment, which is then held; its value afterwards is what the call
\* returns.
getService ==
    /\ IF factoryInstance # NULL
       THEN UNCHANGED <<factoryInstance, factoryProvider>>
       ELSE LET providerType == getProviderType IN
            CASE providerType = "minimax" ->
                   IF EnvUnset(processEnv.MINIMAX_API_KEY)
                      \/ EnvUnset(processEnv.MINIMAX_GROUP_ID)
                   THEN factoryInstance' = "gemini" /\ factoryProvider' = "gemini"
                   ELSE factoryInstance' = "minimax" /\ factoryProvider' = providerType
              [] providerType = "ollama" ->
                   factoryInstance' = "ollama" /\ factoryProvider' = providerType
              [] OTHER ->
                   factoryInstance' = "gemini" /\ factoryProvider' = providerType
    /\ UNCHANGED <<processEnv, appVars, cfgVars, geminiApiKey, searchDefaultKey, runVars>>

\* AIServiceFactory.reset
reset ==
    /\ factoryInstance' = NULL
    /\ UNCHANGED <<factoryProvider, processEnv, appVars, cfgVars, geminiApiKey,
                   searchDefaultKey, runVars>>

\* App.tsx 87-88, 143-144: the MiniMax credentials of a configuration are
\* written to the environment.
SetMiniMaxEnv(apiKey, groupId) ==
    /\ processEnv' = [processEnv EXCEPT !.MINIMAX_API_KEY = apiKey,
                                        !.MINIMAX_GROUP_ID = groupId]
    /\ UNCHANGED <<factoryInstance, factoryProvider, appVars, cfgVars, geminiApiKey,
                   searchDefaultKey, runVars>>

\* factory.ts 22-23: the statics of the class before any call, in environment env
FactoryLoaded(env) ==
    /\ processEnv = env
    /\ factoryInstance = NULL
    /\ factoryProvider = "gemini"

\* App.tsx 25-46: the state of a render with no run and no validation under
\* way, configuration c and backend svc.
Start(c, svc, env) ==
    /\ query = <<>>
    /\ appState = "IDLE"
    /\ steps = <<>>
    /\ result = <<>>
    /\ error = NULL
    /\ providerConfig = c
    /\ isValidating = FALSE
    /\ aiServiceInstance = svc
    /\ geminiApiKey = ""
    /\ searchDefaultKey = env
    /\ pc = "idle"
    /\ runSvc = "gemini"
    /\ runQuery = <<>>
    /\ finalSteps = <<>>
    /\ allSources = <<>>
    /\ idx = 0
    /\ results = <<>>
    /\ pending = NoCall
    /\ planResp = NoOutcome
    /\ calls = <<>>
    /\ valPc = "idle"
    /\ valProvider = "gemini"
    /\ observed = <<>>

\* The first render: the configuration is the default one or whatever an
\* earlier session left in storage, the backend is gemini.
Init ==
    /\ \E c \in Configs, e \in EnvSearchKeys : Start(c, "gemini", e)
    /\ FactoryLoaded(NoProcessEnv)

\* The configurations of a session whose validation succeeded, with every
\* credential of the reasoning backend present.
RunConfigs == {c \in Configs : c.isValid /\ c.apiKey = "k1" /\ c.groupId = "g1"}

\* The application once handleValidate has succeeded for the configuration.
InitRun ==
    /\ \E c \in RunConfigs, e \in EnvSearchKeys : Start(c, c.provider, e)
    /\ FactoryLoaded(NoProcessEnv)

\* The same for a build with or without a search key of its own.
InitBuild ==
    /\ \E c \in RunConfigs, e \in BuildSearchKeys : Start(c, c.provider, e)
    /\ FactoryLoaded(NoProcessEnv)

\* The tasks of the settings panel.
Settings ==
    \/ \E p \in ProviderTypes : handleProviderChange(p)
    \/ \E v \in ApiKeys : ApiKeyChange(v)
    \/ \E v \in GroupIds : GroupIdChange(v)
    \/ \E v \in SearchKeys : SearchApiKeyChange(v)
    \/ \E v \in BaseUrls : ModelChange(v)
    \/ handleValidate
    \/ \E o \in LLMOutcomes(valProvider, ProbeTexts) : ValidateReturns(o)

\* The tasks of the search form and of a run, over the completions P, A, S,
\* the hit lists H and the grounding chunk lists C.
Research(P, A, S, H, C) ==
    \/ \E v \in Queries : SetQuery(v)
    \/ handleSearch
    \/ \E o \in LLMOutcomes(runSvc, P) \cup {GeminiKeyError, MiniMaxKeyError} :
          PlanReturns(o)
    \/ StartStep
    \/ \E o \in GeminiStepOutcomes(A, C) \cup {GeminiKeyError} : GeminiStepReturns(o)
    \/ \E o \in TavilyOutcomes(H) \cup {TavilyKeyError} : SearchReturns(o)
    \/ \E o \in LLMOutcomes(runSvc, A) \cup {MiniMaxKeyError} : AnalysisReturns(o)
    \/ StartSynthesis
    \/ \E o \in LLMOutcomes(runSvc, S) \cup {GeminiKeyError, MiniMaxKeyError} :
          SynthesisReturns(o)
    \/ ResetAndTryAgain
    \/ NewSearch

Next ==
    \/ Research(PlanTexts, AnalysisTexts, SynthTexts, HitLists, ChunkLists)
    \/ Settings

Spec == Init /\ [][Next]_vars

\* The search form and the runs of a validated session, over the wider inputs.
NextRun ==
    Research(RunPlanTexts, RunAnalysisTexts, RunSynthTexts, RunHitLists, RunChunkLists)

SpecRun == InitRun /\ [][NextRun]_vars

\* The runs of a validated session of either build.
NextBuild == Research(PlanTexts, AnalysisTexts, SynthTexts, HitLists, ChunkLists)

SpecBuild == InitBuild /\ [][NextBuild]_vars

\* The factory in every environment: calls of getService and reset, and the
\* writes of the MiniMax credentials, in any order.
InitFactory ==
    /\ Start(getDefaultConfig, "gemini", "")
    /\ \E env \in ProcessEnvs : FactoryLoaded(env)

NextFactory ==
    \/ getService
    \/ reset
    \/ \E k \in ApiKeys, g \in GroupIds : SetMiniMaxEnv(k, g)

SpecFactory == InitFactory /\ [][NextFactory]_vars

\* The steps handleSearch takes once the call it awaits has settled, and its
\* synchronous continuations.
RunProgress(P, A, S, H, C) ==
    \/ \E o \in LLMOutcomes(runSvc, P) \cup {GeminiKeyError, MiniMaxKeyError} :
          PlanReturns(o)
    \/ StartStep
    \/ \E o \in GeminiStepOutcomes(A, C) \cup {GeminiKeyError} : GeminiStepReturns(o)
    \/ \E o \in TavilyOutcomes(H) \cup {TavilyKeyError} : SearchReturns(o)
    \/ \E o \in LLMOutcomes(runSvc, A) \cup {MiniMaxKeyError} : AnalysisReturns(o)
    \/ StartSynthesis
    \/ \E o \in LLMOutcomes(runSvc, S) \cup {GeminiKeyError, MiniMaxKeyError} :
          SynthesisReturns(o)

\* The runs of a validated session over every planning completion, when
\* every call settles and every continuation of handleSearch is run.
NextPlans == Research(RunPlanTexts, AnalysisTexts, SynthTexts, HitLists, ChunkLists)

SpecPlansFair ==
    /\ InitRun
    /\ [][NextPlans]_vars
    /\ WF_vars(RunProgress(RunPlanTexts, AnalysisTexts, SynthTexts, HitLists, ChunkLists))

----------------------------------------------------------------------------
(* Properties *)

RunStates == {"IDLE", "COMPLETED", "ERROR"}

Transitions ==
    { <<"IDLE", "PLANNING">>, <<"PLANNING", "RESEARCHING">>,
      <<"RESEARCHING", "SYNTHESIZING">>, <<"SYNTHESIZING", "COMPLETED">>,
      <<"PLANNING", "ERROR">>, <<"RESEARCHING", "ERROR">>, <<"SYNTHESIZING", "ERROR">>,
      <<"COMPLETED", "PLANNING">>, <<"ERROR", "PLANNING">>,
      <<"COMPLETED", "IDLE">>, <<"ERROR", "IDLE">> }

\* C1: the run state changes only along idle->planning, planning->researching,
\* researching->synthesizing, synthesizing->completed, an in-flight state->error,
\* completed or error->planning and completed or error->idle.
C1_Transitions ==
    [][appState' # appState => <<appState, appState'>> \in Transitions]_vars

\* A fresh run was started after an earlier one had published its step list.
C1_Witness == appState = "PLANNING" /\ Len(steps) > 0

\* C2: a run enters planning only from a handleSearch that found isValid set
\* and the trimmed query non-empty; a handleSearch that finds either missing
\* changes nothing and leaves no call in flight.
C2_GuardedStart ==
    [][ /\ (appState' = "PLANNING" /\ pc' = "plan" /\ pc # "plan")
            => (providerConfig.isValid /\ Trim(query) # <<>>)
        /\ (handleSearch /\ SearchRefused) => UNCHANGED vars ]_vars

\* A blank query in a form that can be submitted, after a completed run.
C2_Witness ==
    /\ TaskMayRun /\ ~SubmitDisabled
    /\ query = <<" ">>
    /\ appState = "COMPLETED"

\* C3: one run at a time: a run is under way exactly in the in-flight states,
\* the form cannot be submitted in them, and a run starts only from idle,
\* completed or error with no other run under way.
C3_SingleRun ==
    [][ /\ (pc # "idle") = (appState \in InFlight)
        /\ appState \in InFlight => SubmitDisabled
        /\ pc' = "plan" => (pc = "plan" \/ (pc = "idle" /\ appState \in RunStates)) ]_vars

\* A run is under way while the configuration is valid and the query non-empty.
C3_Witness ==
    /\ appState \in InFlight /\ TaskMayRun
    /\ providerConfig.isValid /\ Trim(query) # <<>>

\* completed*, at most one searching, pending*
StepsInOrder(list) ==
    \E k \in 0..Len(list) :
        /\ \A j \in 1..k : list[j].status = "completed" /\ list[j].hasResult
        /\ k < Len(list) => list[k + 1].status \in {"searching", "pending"}
        /\ \A j \in (k + 2)..Len(list) : list[j].status = "pending"
        /\ \A j \in (k + 1)..Len(list) : ~list[j].hasResult

RECURSIVE SourcesOf(_)
SourcesOf(list) ==
    IF list = <<>> THEN <<>>
    ELSE (IF Head(list).hasResult THEN Head(list).sources ELSE <<>>) \o SourcesOf(Tail(list))

\* C4: steps run one at a time in plan order: the published list is always
\* completed steps, then at most one searching step, then pending steps; while
\* a step's call is awaited it is the only searching step, every step before it
\* is completed and published, and the aggregate holds exactly their sources.
C4_Sequential ==
    /\ StepsInOrder(steps)
    /\ pc \in {"exec", "search", "llm"} =>
          /\ idx < Len(finalSteps)
          /\ finalSteps[idx + 1].status = "searching"
          /\ \A j \in 1..idx : finalSteps[j].status = "completed"
          /\ steps = finalSteps
          /\ allSources = SourcesOf(finalSteps)
    /\ pc \in {"loop", "synth"} =>
          /\ \A j \in 1..Len(finalSteps) :
                finalSteps[j].status = IF j <= idx THEN "completed" ELSE "pending"
          /\ allSources = SourcesOf(finalSteps)

\* The second step's call is awaited after the first committed a source.
C4_Witness ==
    /\ pc \in {"exec", "search", "llm"}
    /\ idx = 1
    /\ Len(allSources) > 0

\* handleSearch has given the run up with this message: the step list is as
\* it was, every later step is still pending, nothing is awaited any more.
Aborted(message) ==
    /\ appState' = "ERROR"
    /\ error' = message
    /\ pc' = "idle"
    /\ pending' = NoCall
    /\ steps' = steps
    /\ \A j \in (idx + 2)..Len(steps') : steps'[j].status = "pending"

\* C5: when executeResearchStep raises (a failed search for minimax and
\* ollama, a failed call for gemini) the run ends at once in ERROR with the
\* error's message, no later step is started and no synthesis is called.
C5_StepErrorAborts ==
    [][ /\ \A o \in {NetError, HttpError, TavilyKeyError} :
              SearchReturns(o) => Aborted(SearchErrorMessage(o))
        /\ \A o \in {NetError, GeminiKeyError} :
              GeminiStepReturns(o) => Aborted(o.msg)
        /\ appState' = "ERROR" => (pc' = "idle" /\ result' = <<>>) ]_vars

\* The first of two steps failed in its search; the second is still pending.
C5_Witness ==
    /\ appState = "ERROR"
    /\ error = "Tavily search failed: body"
    /\ Len(steps) > 1
    /\ steps[1].status = "searching"
    /\ steps[2].status = "pending"

\* A completion that is not, as a whole, a JSON array.
Malformed(t) == ~(JSONParse(t).ok /\ JSONParse(t).val.kind = "array")

\* C6: for a malformed planning completion generateResearchPlan returns the
\* one-step plan of the original query, pending.
C6_MalformedPlanFallsBack ==
    (pc = "loop" /\ idx = 0 /\ planResp.kind = "text" /\ Malformed(planResp.text))
        => finalSteps = FallbackPlan(runQuery)

\* C7: no run goes from planning to error.
C7_PlanningNeverFails ==
    [][appState = "PLANNING" => appState' \in {"PLANNING", "RESEARCHING"}]_vars

\* C8: no run goes from synthesizing to error.
C8_SynthesisNeverFails ==
    [][appState = "SYNTHESIZING" => appState' \in {"SYNTHESIZING", "COMPLETED"}]_vars

Uris(srcs) == {srcs[j].uri : j \in 1..Len(srcs)}
LastAt(srcs, u) == MaxOf({j \in 1..Len(srcs) : srcs[j].uri = u})

\* C9: allSources of the result has exactly one entry for each uri among the
\* sources of the run's steps, and it is the last entry of that uri.
C9_LastSourceWins ==
    result # <<>> =>
        LET agg == SourcesOf(result[1].steps)
            out == result[1].allSources IN
        /\ Uris(out) = Uris(agg)
        /\ Cardinality(Uris(out)) = Len(out)
        /\ \A k \in 1..Len(out) : out[k] = agg[LastAt(agg, out[k].uri)]

\* A result whose steps returned one uri under two titles.
C9_Witness ==
    /\ result # <<>>
    /\ LET agg == SourcesOf(result[1].steps) IN
       \E i, j \in 1..Len(agg) :
          i < j /\ agg[i].uri = agg[j].uri /\ agg[i].title # agg[j].title

FieldsOf(c) == <<c.provider, c.apiKey, c.groupId, c.model, c.searchApiKey>>

\* C10: a change of a configuration field, and every input of the settings
\* panel, leaves isValid false; isValid becomes true only in a handleValidate
\* that succeeded, which changes no field.
C10_EditResetsValid ==
    [][ /\ FieldsOf(providerConfig') # FieldsOf(providerConfig) => ~providerConfig'.isValid
        /\ ( \/ \E p \in ProviderTypes : handleProviderChange(p)
             \/ \E v \in ApiKeys : ApiKeyChange(v)
             \/ \E v \in GroupIds : GroupIdChange(v)
             \/ \E v \in SearchKeys : SearchApiKeyChange(v)
             \/ \E v \in BaseUrls : ModelChange(v) ) => ~providerConfig'.isValid
        /\ (providerConfig'.isValid /\ ~providerConfig.isValid) =>
              /\ FieldsOf(providerConfig') = FieldsOf(providerConfig)
              /\ \/ handleValidate
                 \/ \E o \in LLMOutcomes(valProvider, ProbeTexts) : ValidateReturns(o) ]_vars

\* The minimax backend was selected by a validation and a later edit has
\* reset isValid.
C10_Witness == aiServiceInstance = "minimax" /\ ~providerConfig.isValid

\* The outcomes of a probe in which the backend was unreachable or rejected
\* the request.
ProbeFailures == LLMOutcomes(valProvider, {})

\* C11: when the probe call of a minimax or ollama validation fails (network
\* failure, non-2xx response, no completion), handleValidate leaves isValid
\* false.
C11_FailedProbeInvalid ==
    [][ \A o \in ProbeFailures :
           (ValidateReturns(o) /\ ~providerConfig.isValid) => ~providerConfig'.isValid ]_vars

ConfigErrorMessages == {GeminiKeyError.msg, MiniMaxKeyError.msg, TavilyKeyError.msg}

\* C12: with a validated, unchanged configuration no run ends in ERROR for a
\* missing credential or field.
C12_NoConfigError ==
    [][ (appState' = "ERROR" /\ appState # "ERROR") => error' \notin ConfigErrorMessages ]_vars

\* C13: whenever a run can start (isValid), the backend that will run is the
\* one providerConfig.provider names.
C13_BackendIsProvider == providerConfig.isValid => aiServiceInstance = providerConfig.provider

\* Step idx + 1 has been committed with this result and these sources, and
\* the run goes on.
StepCommitted(res, srcs) ==
    /\ Len(steps') = Len(steps)
    /\ steps'[idx + 1].status = "completed"
    /\ steps'[idx + 1].result = res
    /\ steps'[idx + 1].sources = srcs
    /\ allSources' = allSources \o srcs
    /\ pc' = "loop"
    /\ pending' = NoCall
    /\ appState' = "RESEARCHING"
    /\ error' = NULL

\* A search answer without hits.
NoHits == Outcome("hits", <<>>, <<>>, "")

\* C14: a search of minimax or ollama that returns no hit commits the step
\* with the fixed sentinel and no source, without a reasoning call and without
\* an error; a reasoning call of a step is made only over at least one hit.
C14_NoHitsSentinel ==
    [][ /\ SearchReturns(NoHits) => StepCommitted(NoInformation, <<>>)
        /\ pc' = "llm" => Len(results') > 0 ]_vars

\* A step of a search-augmented backend was committed with the sentinel.
C14_Witness ==
    /\ pc = "loop"
    /\ idx > 0
    /\ runSvc \in {"minimax", "ollama"}
    /\ finalSteps[idx].result = NoInformation
    /\ finalSteps[idx].sources = <<>>

\* What a reasoning call of the running backend can fail with.
AnalysisFailures == LLMOutcomes(runSvc, {}) \cup {MiniMaxKeyError}

\* C15: when the reasoning call of a step fails after a search with hits, the
\* step is committed with the search context as its result and the sources of
\* the search, and the run goes on.
C15_AnalysisFailureRecovered ==
    [][ \A o \in AnalysisFailures :
           AnalysisReturns(o) =>
              /\ Len(results) > 0
              /\ StepCommitted(Text("context", steps[idx + 1].query, results, <<>>),
                               SearchSources(results)) ]_vars

\* A step was committed with the search context and the sources of its hits.
C15_Witness ==
    /\ pc = "loop"
    /\ idx > 0
    /\ finalSteps[idx].result.kind = "context"
    /\ Len(finalSteps[idx].result.hits) > 0
    /\ Len(finalSteps[idx].sources) = Len(finalSteps[idx].result.hits)

\* C16: when the synthesis completion is not JSON, the result carries the
\* fixed summary and the dossier of the run's steps as its deepDive.
C16_UnparsedSynthesisDossier ==
    [][ \A t \in RunSynthTexts :
           (~JSONParse(t).ok /\ SynthesisReturns(Outcome("text", t, <<>>, ""))) =>
              /\ result' # <<>>
              /\ result'[1].summary = "Analysis complete."
              /\ result'[1].deepDive = DossierBody(finalSteps) ]_vars

\* The query of the i-th object of WellFormedPlan(k).
QueryAt(i) == IF i % 2 = 1 THEN <<"a">> ELSE <<"b">>

\* C17: for a planning completion that is a JSON array of k objects with a
\* query, k in 1..MaxPlanLen, the plan has k steps, in the order of the array,
\* with pairwise distinct ids and every status pending.
C17_WellFormedPlanKept ==
    \A k \in 1..MaxPlanLen :
       (pc = "loop" /\ idx = 0 /\ planResp.kind = "text"
            /\ planResp.text = WellFormedPlan(k)) =>
          /\ Len(finalSteps) = k
          /\ steps = finalSteps
          /\ \A i \in 1..k : /\ finalSteps[i].status = "pending"
                             /\ finalSteps[i].query = QueryAt(i)
          /\ \A i, j \in 1..k : i # j => finalSteps[i].id # finalSteps[j].id

\* A plan of four steps has just been returned.
C17_Witness ==
    /\ pc = "loop"
    /\ idx = 0
    /\ planResp.kind = "text"
    /\ Len(planResp.text) > 7
    /\ Len(finalSteps) = 4

RunOrder == <<"PLANNING", "RESEARCHING", "SYNTHESIZING", "COMPLETED">>

\* handleSearch passes its guard: a run begins.
RunBegins == pc = "idle" /\ pc' = "plan"

RunEnds == pc # "idle" /\ pc' = "idle"

\* C19: a run publishes one terminal outcome: nothing is published while it
\* is under way; when it ends it has set either the result (COMPLETED) or the
\* error message (ERROR), not both; and a result or a message is set at no
\* other moment.
C19_OneOutcome ==
    [][ /\ pc' # "idle" => (result' = <<>> /\ error' = NULL)
        /\ RunEnds => \/ appState' = "COMPLETED" /\ result' # <<>> /\ error' = NULL
                      \/ appState' = "ERROR" /\ error' # NULL /\ result' = <<>>
        /\ (result' # result /\ result' # <<>>) => RunEnds
        /\ (error' # error /\ error' # NULL) => RunEnds
        /\ ~(result' # <<>> /\ error' # NULL) ]_vars

\* A run started on the completed steps of the run before it has ended in
\* ERROR at its planning call: the message is set and no result is.
C19_Witness ==
    /\ appState = "ERROR"
    /\ observed = <<"PLANNING", "ERROR">>
    /\ error # NULL
    /\ result = <<>>
    /\ Len(steps) > 0
    /\ \A j \in 1..Len(steps) : steps[j].status = "completed"

\* A request of the run's backend goes out on the wire.
CallIssued == pending' = Fetch /\ pending # Fetch

\* C20: a backend call uses the configuration stored at the moment of the
\* call; for gemini, the key of the request is the stored apiKey.
C20_CallUsesStoredConfig ==
    [][ (CallIssued /\ runSvc' = "gemini") => geminiApiKey' = localStorage.apiKey ]_vars

\* C21: in idle and in planning nothing of the run before is left: the step
\* list is empty, the result and the error message are null.
C21_RunStateCleared ==
    appState \in {"IDLE", "PLANNING"} => (steps = <<>> /\ result = <<>> /\ error = NULL)

\* The ids and queries of a step list, in order.
PlanOf(list) == [j \in 1..Len(list) |-> <<list[j].id, list[j].query>>]

AllCompleted(list) ==
    \A j \in 1..Len(list) : list[j].status = "completed" /\ list[j].hasResult

\* C22: in synthesizing and completed every step of the published list is
\* completed with its result; from the plan's return to the end of the run the
\* list keeps its length, ids and queries; and the steps of the result are
\* that list.
C22_StepsCompleteAtSynthesis ==
    [][ /\ appState' \in {"SYNTHESIZING", "COMPLETED"} => AllCompleted(steps')
        /\ (pc \notin {"idle", "plan"} /\ pc' # "idle") =>
              (PlanOf(finalSteps') = PlanOf(finalSteps) /\ PlanOf(steps') = PlanOf(finalSteps'))
        /\ (pc = "synth" /\ appState' = "COMPLETED") =>
              /\ result'[1].steps = finalSteps
              /\ steps' = finalSteps
              /\ AllCompleted(finalSteps) ]_vars

\* The synthesis of a plan of two steps is awaited.
C22_Witness ==
    /\ appState = "SYNTHESIZING"
    /\ pc = "synth"
    /\ Len(steps) > 1

IsMethodCall(c) ==
    c.op \in {"generateResearchPlan", "executeResearchStep", "synthesizeAnalysis"}

\* The backend calls of a run over the plan list for the query q.
CallsOfRun(list, q) ==
    <<Call("generateResearchPlan", 0, q)>>
    \o [j \in 1..Len(list) |-> Call("executeResearchStep", j - 1, list[j].query)]
    \o <<Call("synthesizeAnalysis", 0, q)>>

NoRepeat(s) == \A i, j \in 1..Len(s) : i # j => s[i] # s[j]

\* C23: a run that completes has called generateResearchPlan once, then
\* executeResearchStep once for each step of the plan with its query and in
\* plan order, then synthesizeAnalysis once; and no call and no request of a
\* run is made twice.
C23_CallsOncePerStep ==
    [][ /\ (pc = "synth" /\ appState' = "COMPLETED") =>
              SelectSeq(calls, IsMethodCall) = CallsOfRun(finalSteps, runQuery)
        /\ NoRepeat(calls') ]_vars

\* The synthesis of a plan of three steps or more is awaited by a
\* search-augmented backend one of whose reasoning calls failed.
C23_Witness ==
    /\ pc = "synth"
    /\ Len(finalSteps) > 2
    /\ \E j \in 1..Len(finalSteps) : finalSteps[j].result.kind = "context"
    /\ \E j \in 1..Len(finalSteps) : finalSteps[j].result.kind = "analysis"

\* C24: when every call returns or fails, a run that has entered planning
\* reaches completed or error, whatever the planning call answered.
C24_RunTerminates == (appState \in InFlight) ~> (appState \in {"COMPLETED", "ERROR"})

\* A run over a plan without steps, and a run over the fallback plan of a
\* completion that was no JSON, have got to their synthesis.
C24_Witness ==
    /\ pc = "synth"
    /\ planResp.kind = "text"
    /\ \/ Len(finalSteps) = 0
       \/ planResp.text = <<"p">> /\ Len(finalSteps) = 1

\* C25: there is no cancellation.  While a run is in flight, the run state,
\* the step list and the aggregate source list change only by a continuation
\* of handleSearch; editing the configuration, validating and the reset
\* buttons leave them and the run's position alone; and the run leaves
\* researching only for synthesizing, with every step completed, or for the
\* error state, by a failure of a step that was not recovered.
C25_NoCancellation ==
    [][ /\ (appState \in InFlight /\ <<appState, steps, finalSteps, allSources>>'
                                      # <<appState, steps, finalSteps, allSources>>)
           => pc' # pc
        /\ (appState \in InFlight /\ (Settings \/ ResetAndTryAgain \/ NewSearch))
           => UNCHANGED <<appState, steps, finalSteps, allSources, pc, idx, pending>>
        /\ (appState = "RESEARCHING" /\ appState' # "RESEARCHING")
           => \/ /\ appState' = "SYNTHESIZING"
                 /\ pc = "loop"
                 /\ idx = Len(finalSteps)
                 /\ AllCompleted(steps)
              \/ /\ appState' = "ERROR"
                 /\ error' # NULL
                 /\ pc \in {"exec", "search"}
                 /\ idx < Len(finalSteps) ]_vars

\* A run is past its first step while the configuration, edited since the
\* run began, is invalid.
C25_Witness ==
    /\ appState = "RESEARCHING"
    /\ idx >= 1
    /\ pc \in {"exec", "search", "llm"}
    /\ ~providerConfig.isValid

SearchRequests(cs) ==
    Cardinality({j \in 1..Len(cs) : cs[j] = Call("fetch:search", idx, <<>>)})

\* C27: SearchService.search, called with the stored search key, raises the
\* configuration error before any request when that key and the key the
\* instance was built with are both empty, and the run fails with it; in
\* every other case it puts exactly one request on the wire, and none is
\* added while the search is awaited or after it has settled.
C27_SearchKeyOrConfigError ==
    [][ /\ (pc = "loop" /\ pc' = "search")
           => IF providerConfig.searchApiKey = "" /\ searchDefaultKey = ""
              THEN /\ pending' = Settled(TavilyKeyError)
                   /\ SearchRequests(calls') = 0
              ELSE /\ pending' = Fetch
                   /\ SearchRequests(calls') = 1
        /\ (pc = "search" /\ pending = Settled(TavilyKeyError) /\ pc' # "search")
           => /\ appState' = "ERROR"
              /\ error' = "TAVILY_API_KEY is not configured"
        /\ ~(pc = "search" /\ pending = Fetch
                /\ error' = "TAVILY_API_KEY is not configured")
        /\ pc = "search" => SearchRequests(calls') = SearchRequests(calls)
                            \/ pc' = "idle" ]_vars

\* A search is on the wire with the key of the build, the stored one being
\* empty.
C27_Witness ==
    /\ pc = "search"
    /\ pending = Fetch
    /\ providerConfig.searchApiKey = ""
    /\ searchDefaultKey = "e1"

\* Does the source list srcs cite the hits rs one for one, in their order?
CitesInOrder(srcs, rs) ==
    /\ Len(srcs) = Len(rs)
    /\ \A j \in 1..Len(rs) : srcs[j].uri = rs[j].url /\ srcs[j].title = rs[j].title

\* C28: the sources SearchService.search returns are the hits it returns,
\* projected one for one in their order: as many sources as hits, the j-th
\* with the url and the title of the j-th hit.  The hits are those of the
\* payload, in its order, a missing field read as the empty string.
C28_SourcesProjectHits ==
    [][ /\ \A o \in TavilyOutcomes(RunHitLists) :
              (SearchReturns(o) /\ pc' = "llm")
              => /\ Len(results') = Len(o.hits)
                 /\ \A j \in 1..Len(o.hits) :
                       /\ results'[j].url = OrEmpty(o.hits[j].url)
                       /\ results'[j].title = OrEmpty(o.hits[j].title)
                 /\ CitesInOrder(SearchSources(results'), results')
        /\ (pc = "llm" /\ pc' = "loop")
           => CitesInOrder(finalSteps'[idx + 1].sources, results) ]_vars

\* A step of minimax or ollama has been committed over two hits, the first of
\* which came without a title.
C28_Witness ==
    /\ pc = "loop"
    /\ idx > 0
    /\ runSvc \in {"minimax", "ollama"}
    /\ Len(finalSteps[idx].sources) = 2
    /\ finalSteps[idx].sources[1] = GroundingChunk("u2", "")
    /\ finalSteps[idx].sources[2] = GroundingChunk("u1", "t2")

\* C29: when getService resolves a backend, it is ollama for the provider
\* name ollama, minimax for the name minimax with MINIMAX_API_KEY and
\* MINIMAX_GROUP_ID both set, and gemini otherwise: for the name gemini, for
\* an unset or unrecognised name, and for minimax lacking either credential.
\* A held instance is returned as it is, and whenever an instance is held the
\* recorded provider is that instance.
C29_FactoryResolves ==
    [][ /\ (getService /\ factoryInstance = NULL)
           => LET name == processEnv.LLM_PROVIDER
                  minimaxSet == /\ processEnv.MINIMAX_API_KEY = "k1"
                                /\ processEnv.MINIMAX_GROUP_ID = "g1"
              IN  factoryInstance' =
                     CASE name \in {"ollama", "OLLAMA"} -> "ollama"
                       [] name \in {"minimax", "MiniMax"} /\ minimaxSet -> "minimax"
                       [] OTHER -> "gemini"
        /\ (getService /\ factoryInstance # NULL) => factoryInstance' = factoryInstance
        /\ factoryInstance' # NULL => factoryProvider' = factoryInstance' ]_vars

\* minimax was requested without its credentials and gemini was resolved.
C29_Witness ==
    /\ processEnv.LLM_PROVIDER = "MiniMax"
    /\ factoryInstance = "gemini"
    /\ factoryProvider = "gemini"

\* C30: for a completion of minimax or ollama made of prose, a JSON array of
\* k objects with a query, and further prose, with or without brackets in it,
\* the plan is the k steps of the array.
C30_ArrayInProseParsed ==
    \A tail \in ProseTails :
       (pc = "loop" /\ idx = 0 /\ runSvc \in {"minimax", "ollama"}
            /\ planResp.kind = "text"
            /\ planResp.text = PlanInProse(MaxSteps, tail)) =>
          /\ Len(finalSteps) = MaxSteps
          /\ \A i \in 1..Len(finalSteps) : finalSteps[i].query = QueryAt(i)

\* C31: every step of the plan the run holds, and of the list it has
\* published, has a query that is a non-empty string.
C31_QueriesNonEmpty ==
    pc # "idle" =>
       /\ \A j \in 1..Len(finalSteps) : finalSteps[j].query \notin {<<>>, UNDEFINED}
       /\ \A j \in 1..Len(steps) : steps[j].query \notin {<<>>, UNDEFINED}

\* C32: when a run is given up during step i, the published list is left as
\* it was and stays so in the error state: the steps before i completed, with
\* their result and sources, step i searching, the steps after it pending; and
\* no step ever has another status than pending, searching or completed.
C32_AbortKeepsSteps ==
    [][ /\ (pc \in {"exec", "search", "llm"} /\ appState' = "ERROR")
           => /\ steps' = steps
              /\ steps' = finalSteps
              /\ \A j \in 1..idx :
                    /\ steps'[j].status = "completed"
                    /\ steps'[j].hasResult
                    /\ SourcesOf(<<steps'[j]>>) = steps'[j].sources
              /\ steps'[idx + 1].status = "searching"
              /\ ~steps'[idx + 1].hasResult
              /\ \A j \in (idx + 2)..Len(steps') :
                    steps'[j].status = "pending" /\ ~steps'[j].hasResult
        /\ (appState = "ERROR" /\ appState' = "ERROR") => steps' = steps
        /\ \A j \in 1..Len(steps') : steps'[j].status \in {"pending", "searching", "completed"}
      ]_vars

\* The second step failed after the first was completed.
C32_Witness ==
    /\ appState = "ERROR"
    /\ Len(steps) > 1
    /\ steps[1].status = "completed"
    /\ steps[1].hasResult
    /\ steps[2].status = "searching"

\* The place of a status in the life of a step.
StatusRank(status) ==
    CASE status = "pending" -> 0
      [] status = "searching" -> 1
      [] status = "completed" -> 2
      [] OTHER -> 3

\* C33: the step list is published at every change of a status.  The plan is
\* published all pending; a step is published searching when its
\* executeResearchStep call begins and completed, with its result and
\* sources, when the call has resolved; a published status moves one place
\* at a time, pending to searching to completed, and never back; and every
\* list published during a run is the run's own list, with the length, the
\* order, the ids and the queries of the plan.
C33_StepsPublishedInOrder ==
    [][ /\ (pc = "plan" /\ pc' = "loop")
           => /\ steps' = finalSteps'
              /\ \A j \in 1..Len(steps') : steps'[j].status = "pending"
        /\ (pc = "loop" /\ pc' \in {"exec", "search"})
           => /\ steps[idx + 1].status = "pending"
              /\ steps'[idx + 1].status = "searching"
        /\ (pc \in {"exec", "search", "llm"} /\ pc' = "loop")
           => /\ steps[idx + 1].status = "searching"
              /\ steps'[idx + 1].status = "completed"
              /\ steps'[idx + 1].hasResult
        /\ pc \notin {"idle", "plan"}
           => /\ PlanOf(steps') = PlanOf(steps)
              /\ pc' # "idle" => steps' = finalSteps'
              /\ \A j \in 1..Len(steps) :
                    /\ StatusRank(steps'[j].status) >= StatusRank(steps[j].status)
                    /\ StatusRank(steps'[j].status) <= StatusRank(steps[j].status) + 1
      ]_vars

\* The second step has been published searching, the first completed.
C33_Witness ==
    /\ pc \in {"exec", "search", "llm"}
    /\ appState = "RESEARCHING"
    /\ idx = 1
    /\ steps[1].status = "completed"
    /\ steps[2].status = "searching"

\* C34: the result of a completed run has a summary that is a non-empty
\* string and a deepDive that is a string.
C34_SummaryNonEmpty ==
    (appState = "COMPLETED" /\ result # <<>>) =>
       /\ result[1].summary \notin {"", "<undefined>"}
       /\ result[1].deepDive # UndefinedBody

\* C35: a non-2xx response makes the call that got it fail with an Error
\* whose message ends with the body of the response, and the call returns
\* nothing.  For the search, the run ends in ERROR with that message and the
\* step gets no result; for the MiniMax and Ollama endpoint, callAPI and
\* generate throw, so the method that called them goes to its catch: the
\* fallback plan, the search context as the step's result, the dossier as
\* the deepDive.
C35_HttpErrorCarriesBody ==
    [][ /\ SearchReturns(HttpError)
           => /\ appState' = "ERROR"
              /\ error' = "Tavily search failed: " \o HttpError.msg
              /\ steps' = steps
              /\ ~steps'[idx + 1].hasResult
        /\ \A svc \in {"minimax", "ollama"} :
              /\ callAPI(svc, HttpError).kind = "thrown"
              /\ callAPI(svc, HttpError).text = <<>>
              /\ callAPI(svc, HttpError).msg = ApiErrorPrefix(svc) \o HttpError.msg
        /\ (PlanReturns(HttpError) /\ runSvc # "gemini")
           => finalSteps' = FallbackPlan(runQuery)
        /\ AnalysisReturns(HttpError)
           => steps'[idx + 1].result = summarizeResults(finalSteps[idx + 1].query, results)
        /\ (SynthesisReturns(HttpError) /\ runSvc # "gemini")
           => /\ result' # <<>>
              /\ result'[1].deepDive = DossierBody(finalSteps) ]_vars

\* The search of the second step got a non-2xx response.
C35_Witness ==
    /\ appState = "ERROR"
    /\ error = "Tavily search failed: body"
    /\ Len(steps) > 1
    /\ steps[1].status = "completed"
    /\ steps[2].status = "searching"

\* C36: a validation that completes marks valid only the configuration it
\* was started for: the provider is still the one of the render that started
\* it, and the backend it selects is the one the configuration names.
C36_ValidationChecksCurrent ==
    [][ (valPc = "probe" /\ valPc' = "idle" /\ providerConfig'.isValid)
           => /\ providerConfig.provider = valProvider
              /\ aiServiceInstance' = providerConfig'.provider ]_vars

\* C37: the result and the error message are never both set.  The result is
\* set only in COMPLETED; the message is set only in ERROR, or in IDLE, where
\* it is the message of the error state the reset button has just left.
C37_ResultOrError ==
    [][ /\ ~(result' # <<>> /\ error' # NULL)
        /\ result' # <<>> => appState' = "COMPLETED"
        /\ error' # NULL => appState' \in {"ERROR", "IDLE"}
        /\ (error' # NULL /\ appState' = "IDLE")
           => /\ error' = error
              /\ appState \in {"ERROR", "IDLE"} ]_vars

\* The reset button has left the error state: idle, with the message still
\* set.
C37_Witness ==
    /\ appState = "IDLE"
    /\ error # NULL
    /\ result = <<>>
    /\ pc = "idle"

FirstAt(srcs, u) == MinOf({j \in 1..Len(srcs) : srcs[j].uri = u})

\* C38: in allSources of the result the uris stand in the order in which
\* each was first returned by the steps, and each carries the last entry
\* returned for it.
C38_FirstPlaceLastEntry ==
    result # <<>> =>
        LET agg == SourcesOf(result[1].steps)
            out == result[1].allSources IN
        /\ \A k, l \in 1..Len(out) :
              k < l => FirstAt(agg, out[k].uri) < FirstAt(agg, out[l].uri)
        /\ \A k \in 1..Len(out) : out[k] = agg[LastAt(agg, out[k].uri)]
        /\ Len(out) = Cardinality(Uris(agg))

\* A uri was returned, then another, then the first again under another
\* title: the result lists the first uri first, with its later title.
C38_Witness ==
    /\ result # <<>>
    /\ LET agg == SourcesOf(result[1].steps)
           out == result[1].allSources IN
       /\ Len(out) > 1
       /\ \E i, j, k \in 1..Len(agg) :
             /\ i < j /\ j < k
             /\ agg[i].uri = agg[k].uri
             /\ agg[i].uri # agg[j].uri
             /\ agg[i].title # agg[k].title
             /\ out[1] = agg[k]

\* C39: the plan a run holds has at least one step, so that no run is in
\* SYNTHESIZING or COMPLETED without a research step.
C39_PlanNonEmpty ==
    /\ pc \in {"loop", "exec", "search", "llm", "synth"} => Len(finalSteps) >= 1
    /\ appState = "SYNTHESIZING" => Len(steps) >= 1
    /\ (appState = "COMPLETED" /\ result # <<>>) => Len(result[1].steps) >= 1

====
